---- MODULE Spec2Model ----
(***************************************************************************)
(* State-machine model of the stats importer's entry point                 *)
(* (simple/stats/main.py) and of the golden-verification helpers           *)
(* (simple/tests/stats/test_util.py).                                      *)
(*                                                                         *)
(* File contents are sequences of symbols.  CR and LF are the two newline  *)
(* bytes; every other symbol stands for one ordinary character (or, in the *)
(* SQL dump, for one keyword of a statement, which holds no newline and no *)
(* quote).                                                                 *)
(***************************************************************************)
EXTENDS Integers, Sequences, FiniteSets, TLC

VARIABLES
    \* --- golden verification harness (test_util.py: compare_files, is_write_mode)
    fs,          \* the two files a comparison looks at: path -> [exists, data]
    testMode,    \* _TEST_MODE, read from $TEST_MODE once, at import
    lastCall,    \* "none" | "compare" | "harness": the call that produced outcome
    outcome,     \* "none" | "pass" | "fail" | "written"
    skipped,     \* what compare_files would have said when the harness last ran
    \* --- entry point (main.py)
    pc,          \* "idle" | "main" | "_run" | "running" | "usage_error"
    argv,        \* the command line of the current invocation
    FLAGS,       \* the parsed flags
    freezeStack, \* the clock overrides in force, innermost last
    realClock,   \* the system clock
    reads,       \* component -> the last time read it made in the current run
    runnerMode,  \* the mode the Runner of this invocation was constructed with
    ioStarted,   \* whether this invocation has done any I/O
    lastExit,    \* "none" | "returned" | "raised": how the last main() ended
    \* --- gzip timestamp override (test_util.py: use_fake_gzip_time)
    gzipTime,    \* what gzip.time is bound to: [fake, timestamp]
    inTest,      \* whether a test case is running
    testPinned,  \* whether the running test case called use_fake_gzip_time
    gzLast,      \* the last timestamp gzip embedded: [taken, mtime, real, pinned]
    \* --- relational store and its export / dump helpers (test_util.py)
    db,          \* the store: table name -> sequence of rows
    linesep,     \* os.linesep of the platform
    dumpFile,    \* the SQL dump: [exists, data]
    db2,         \* the store the dump is replayed into: [status, tables, rows],
                 \* and in `of` the store whose dump was replayed
    csv,         \* table name -> the CSV file last exported from it
    dumped,      \* the store as it was when the dump file was written
    version,     \* number of writes made to the store
    exports      \* table name -> the CSV data exported since the last write

cmpVars   == <<fs, testMode, lastCall, outcome, skipped>>
mainVars  == <<pc, argv, FLAGS, freezeStack, reads, runnerMode, ioStarted, lastExit>>
gzVars    == <<gzipTime, inTest, testPinned, gzLast>>
storeVars == <<db, linesep, dumpFile, db2, csv, dumped, version, exports>>
vars      == <<cmpVars, mainVars, realClock, gzVars, storeVars>>

-----------------------------------------------------------------------------
(* Bounds *)

MaxLen == 2        \* longest file content compared
MaxTicks == 2      \* ticks of the system clock
MaxFrozen == 1     \* largest instant a caller may freeze or pin the clock at
MaxRows == 2       \* rows per table
MaxWrites == 2     \* writes made to the store
MaxExports == 2    \* exports of one table between two writes

-----------------------------------------------------------------------------
(* Bytes and text-mode reading *)

CR == "CR"
LF == "LF"

RECURSIVE SeqsUpTo(_, _)
SeqsUpTo(S, n) ==
    IF n = 0 THEN {<<>>}
    ELSE LET shorter == SeqsUpTo(S, n - 1)
         IN  shorter \cup {Append(s, x) : s \in {t \in shorter : Len(t) = n - 1}, x \in S}

NoFile == [exists |-> FALSE, data |-> <<>>]
File(d) == [exists |-> TRUE, data |-> d]

\* open(path).read(): text mode with newline=None translates CR LF and a lone
\* CR to LF.
RECURSIVE read(_)
read(bytes) ==
    IF bytes = <<>> THEN <<>>
    ELSE IF Head(bytes) = CR
         THEN IF Len(bytes) >= 2 /\ bytes[2] = LF
              THEN <<LF>> \o read(SubSeq(bytes, 3, Len(bytes)))
              ELSE <<LF>> \o read(Tail(bytes))
         ELSE <<Head(bytes)>> \o read(Tail(bytes))

\* open(path, 'w').write(text): text mode with newline=None writes os.linesep
\* for every LF.
RECURSIVE write(_, _)
write(text, sep) ==
    IF text = <<>> THEN <<>>
    ELSE (IF Head(text) = LF THEN sep ELSE <<Head(text)>>) \o write(Tail(text), sep)

-----------------------------------------------------------------------------
(* Golden verification harness *)

Paths == {"actual", "expected"}
Bytes == {"a", CR, LF}
FileStates == {NoFile} \cup {File(d) : d \in SeqsUpTo(Bytes, MaxLen)}
TestModes == {"", "write", "WRITE", "verify"}
_WRITE_MODE == "write"

is_write_mode_nonempty(mode) == mode # ""

is_write_mode(mode) == mode = _WRITE_MODE

\* The first assertion left out: existence is only looked at to return early.
compare_files_no_existence_assert(fsys, actual_path, expected_path) ==
    IF fsys[expected_path].exists = FALSE THEN "pass"
    ELSE IF ~fsys[actual_path].exists THEN "fail"
    ELSE IF read(fsys[actual_path].data) = read(fsys[expected_path].data)
         THEN "pass" ELSE "fail"

\* "pass" when the call returns, "fail" when an assertion raises.
compare_files(fsys, actual_path, expected_path) ==
    LET actual_file_exists == fsys[actual_path].exists
        expected_file_exists == fsys[expected_path].exists
    IN  IF actual_file_exists # expected_file_exists THEN "fail"
        ELSE IF expected_file_exists = FALSE THEN "pass"
        ELSE LET got == read(fsys[actual_path].data)
                 want == read(fsys[expected_path].data)
             IN  IF got = want THEN "pass" ELSE "fail"

CmpIdle ==
    /\ fs = [p \in Paths |-> NoFile]
    /\ testMode = ""
    /\ lastCall = "none"
    /\ outcome = "none"
    /\ skipped = "none"

CmpInit ==
    /\ fs \in [Paths -> FileStates]
    /\ testMode \in TestModes
    /\ lastCall = "none"
    /\ outcome = "none"
    /\ skipped = "none"

\* The run under test writes its artifact, or writes none.
Produce ==
    /\ \E f \in FileStates : fs' = [fs EXCEPT !["actual"] = f]
    /\ lastCall' = "none"
    /\ outcome' = "none"
    /\ skipped' = "none"
    /\ UNCHANGED testMode
    /\ UNCHANGED <<mainVars, realClock, gzVars, storeVars>>

CompareFiles ==
    /\ lastCall' = "compare"
    /\ outcome' = compare_files(fs, "actual", "expected")
    /\ skipped' = "none"
    /\ UNCHANGED <<fs, testMode>>
    /\ UNCHANGED <<mainVars, realClock, gzVars, storeVars>>

\* A golden test's last step: record the artifact as the golden file in write
\* mode, compare it with the golden file otherwise.
HarnessCheck ==
    /\ lastCall' = "harness"
    /\ skipped' = compare_files(fs, "actual", "expected")
    /\ IF is_write_mode(testMode)
       THEN /\ fs' = [fs EXCEPT !["expected"] = fs["actual"]]
            /\ outcome' = "written"
       ELSE /\ fs' = fs
            /\ outcome' = compare_files(fs, "actual", "expected")
    /\ UNCHANGED testMode
    /\ UNCHANGED <<mainVars, realClock, gzVars, storeVars>>

-----------------------------------------------------------------------------
(* Entry point: flags, time freezing, the run *)

\* The members of RunMode (stats.runner), by value.
RunModeValues == {"customdc", "schemaupdate", "maindc"}
CUSTOM_DC == "customdc"
ModeArgs == RunModeValues \cup {"CUSTOMDC", "bogus"}

FrozenInstants == 0 .. MaxFrozen
RealEpoch == MaxFrozen + 1
ClockValues == RealEpoch .. (RealEpoch + MaxTicks)

_FREEZE_TIME_IGNORE_LIST == {"transformers"}

\* The modules that read the time during a run, as package paths.
Components == {<<"stats", "runner">>, <<"gzip">>, <<"transformers", "models">>}

Args ==
    {[modeGiven |-> FALSE, mode |-> "", freeze_time |-> f, frozen_time |-> t] :
        f \in BOOLEAN, t \in FrozenInstants}
    \cup
    {[modeGiven |-> TRUE, mode |-> m, freeze_time |-> f, frozen_time |-> t] :
        m \in ModeArgs, f \in BOOLEAN, t \in FrozenInstants}

\* The flag declared as a plain string: any value parses.
DEFINE_string_mode(given, value) ==
    [ok |-> TRUE, mode |-> IF given THEN value ELSE CUSTOM_DC]

\* flags.DEFINE_enum("mode", RunMode.CUSTOM_DC, <the members>): the default when
\* the flag is absent, the value when it is a member, a flag error otherwise.
DEFINE_enum_mode(given, value) ==
    IF ~given THEN [ok |-> TRUE, mode |-> CUSTOM_DC]
    ELSE IF value \in RunModeValues THEN [ok |-> TRUE, mode |-> value]
    ELSE [ok |-> FALSE, mode |-> value]

\* The override freeze_time(time_to_freeze, ignore=...) installs.
freeze_time(time_to_freeze, ignore) == [time |-> time_to_freeze, ignore |-> ignore]

\* A module is exempt when its name starts with an entry of the ignore list.
should_use_real_time(module, ignore) == Head(module) \in ignore

\* What a time read made by `module` returns.
time_time(stack, clock, module) ==
    IF stack # <<>> /\ ~should_use_real_time(module, stack[Len(stack)].ignore)
    THEN stack[Len(stack)].time
    ELSE clock

\* The freeze installed with no ignore list.
main_enter_no_ignore(flags, stack) ==
    IF flags.freeze_time
    THEN Append(stack, freeze_time(flags.frozen_time, {}))
    ELSE stack

\* main, up to the call of _run: the with statement entered when the flag is set.
main_enter(flags, stack) ==
    IF flags.freeze_time
    THEN Append(stack, freeze_time(flags.frozen_time, _FREEZE_TIME_IGNORE_LIST))
    ELSE stack

\* The override removed only when _run returns (start/stop with no finally).
main_exit_no_finally(flags, stack, raised) ==
    IF flags.freeze_time /\ ~raised THEN SubSeq(stack, 1, Len(stack) - 1) ELSE stack

\* main, from the end of _run: the with statement left, by return or by exception.
main_exit(flags, stack, raised) ==
    IF flags.freeze_time THEN SubSeq(stack, 1, Len(stack) - 1) ELSE stack

NoRead == [taken |-> FALSE, value |-> 0, real |-> 0]

MainIdle ==
    /\ pc = "idle"
    /\ argv = [modeGiven |-> FALSE, mode |-> "", freeze_time |-> FALSE, frozen_time |-> 0]
    /\ FLAGS = [mode |-> CUSTOM_DC, freeze_time |-> FALSE, frozen_time |-> 0]
    /\ freezeStack = <<>>
    /\ reads = [c \in Components |-> NoRead]
    /\ runnerMode = "none"
    /\ ioStarted = FALSE
    /\ lastExit = "none"

\* app.run(main): the flags are parsed, and main is called only if they parse.
Invoke ==
    /\ pc = "idle"
    /\ \E a \in Args :
        LET parsed == DEFINE_enum_mode(a.modeGiven, a.mode)
        IN  /\ argv' = a
            /\ IF parsed.ok
               THEN /\ pc' = "main"
                    /\ FLAGS' = [mode |-> parsed.mode, freeze_time |-> a.freeze_time,
                                 frozen_time |-> a.frozen_time]
               ELSE /\ pc' = "usage_error"
                    /\ FLAGS' = FLAGS
    /\ reads' = [c \in Components |-> NoRead]
    /\ runnerMode' = "none"
    /\ ioStarted' = FALSE
    /\ UNCHANGED <<freezeStack, lastExit, realClock>>
    /\ UNCHANGED <<cmpVars, gzVars, storeVars>>

MainEnter ==
    /\ pc = "main"
    /\ freezeStack' = main_enter(FLAGS, freezeStack)
    /\ ioStarted' = (ioStarted \/ FLAGS.freeze_time)    \* logging.info
    /\ pc' = "_run"
    /\ UNCHANGED <<argv, FLAGS, reads, runnerMode, lastExit, realClock>>
    /\ UNCHANGED <<cmpVars, gzVars, storeVars>>

\* _run: initialize_logger(), then the Runner is constructed and run() starts.
RunnerStart ==
    /\ pc = "_run"
    /\ ioStarted' = TRUE
    /\ runnerMode' = FLAGS.mode
    /\ pc' = "running"
    /\ UNCHANGED <<argv, FLAGS, freezeStack, reads, lastExit, realClock>>
    /\ UNCHANGED <<cmpVars, gzVars, storeVars>>

TimeRead ==
    /\ pc = "running"
    /\ \E c \in Components :
        reads' = [reads EXCEPT ![c] =
                    [taken |-> TRUE, value |-> time_time(freezeStack, realClock, c),
                     real |-> realClock]]
    /\ UNCHANGED <<pc, argv, FLAGS, freezeStack, runnerMode, ioStarted, lastExit, realClock>>
    /\ UNCHANGED <<cmpVars, gzVars, storeVars>>

\* Runner.run() returns or raises, and main ends.
RunEnds ==
    /\ pc = "running"
    /\ \E raised \in BOOLEAN :
        /\ freezeStack' = main_exit(FLAGS, freezeStack, raised)
        /\ lastExit' = IF raised THEN "raised" ELSE "returned"
    /\ pc' = "idle"
    /\ UNCHANGED <<argv, FLAGS, reads, runnerMode, ioStarted, realClock>>
    /\ UNCHANGED <<cmpVars, gzVars, storeVars>>

Tick ==
    /\ realClock < RealEpoch + MaxTicks
    /\ realClock' = realClock + 1
    /\ UNCHANGED <<cmpVars, mainVars, gzVars, storeVars>>

-----------------------------------------------------------------------------
(* gzip timestamp override *)

RealGzipTime == [fake |-> FALSE, timestamp |-> 0]

\* FakeGzipTime(timestamp): an object whose time() returns the timestamp.
FakeGzipTime(timestamp) == [fake |-> TRUE, timestamp |-> timestamp]

\* gzip.time = FakeGzipTime(timestamp)
use_fake_gzip_time(timestamp) == FakeGzipTime(timestamp)

\* gzip.time.time(), which gzip writes into the header of a compressed file.
gzip_time_time(binding, clock) == IF binding.fake THEN binding.timestamp ELSE clock

GzIdle ==
    /\ gzipTime = RealGzipTime
    /\ inTest = FALSE
    /\ testPinned = FALSE
    /\ gzLast = [taken |-> FALSE, mtime |-> 0, real |-> 0, pinned |-> FALSE]

TestBegin ==
    /\ ~inTest
    /\ inTest' = TRUE
    /\ testPinned' = FALSE
    /\ UNCHANGED <<gzipTime, gzLast, realClock>>
    /\ UNCHANGED <<cmpVars, mainVars, storeVars>>

UseFakeGzipTime ==
    /\ inTest
    /\ \E t \in FrozenInstants : gzipTime' = use_fake_gzip_time(t)
    /\ testPinned' = TRUE
    /\ UNCHANGED <<inTest, gzLast, realClock>>
    /\ UNCHANGED <<cmpVars, mainVars, storeVars>>

GzipWrite ==
    /\ inTest
    /\ gzLast' = [taken |-> TRUE, mtime |-> gzip_time_time(gzipTime, realClock),
                  real |-> realClock, pinned |-> testPinned]
    /\ UNCHANGED <<gzipTime, inTest, testPinned, realClock>>
    /\ UNCHANGED <<cmpVars, mainVars, storeVars>>

\* The test case ends; nothing rebinds gzip.time.
TestEnd ==
    /\ inTest
    /\ inTest' = FALSE
    /\ UNCHANGED <<gzipTime, testPinned, gzLast, realClock>>
    /\ UNCHANGED <<cmpVars, mainVars, storeVars>>

-----------------------------------------------------------------------------
(* The relational store *)

DQ == "DQ"    \* the double quote
SQ == "SQ"    \* the single quote
COMMA == ","

TableNames == {"key_value_store", "observations", "triples"}
\* sqlite_master ORDER BY name, the order iterdump walks the tables in.
TableOrder == <<"key_value_store", "observations", "triples">>

OBSERVATION_FIELD_NAMES == <<"entity", "variable", "date", "value">>
TripleFields == <<"subject_id", "predicate", "object_id", "object_value">>
KeyValueColumns == <<"lookup_key", "value">>

\* The rows a run may persist; a value is a sequence of characters.
RowChoices(t) ==
    IF t = "observations"
    THEN {<< <<"e">>, <<"v">>, <<"d">>, <<"1">> >>,
          << <<"e">>, <<"v">>, <<"d">>, <<"1", COMMA, "5">> >>}
    ELSE IF t = "triples"
    THEN {<< <<"s">>, <<"p">>, <<"o">>, <<>> >>,
          << <<"s">>, <<"p">>, <<>>, <<"a", CR, SQ>> >>}
    ELSE {<<k, v>> : k \in {<<"k">>, <<"j">>}, v \in {<<"x", LF>>, <<DQ, SQ>>}}

EmptyStore == [t \in TableNames |-> <<>>]
NoTables == [status |-> "fresh", tables |-> {}, rows |-> EmptyStore, of |-> EmptyStore]

RECURSIVE Concat(_)
Concat(seqs) == IF seqs = <<>> THEN <<>> ELSE Head(seqs) \o Concat(Tail(seqs))

RECURSIVE Join(_, _)
Join(seqs, sep) ==
    IF seqs = <<>> THEN <<>>
    ELSE IF Len(seqs) = 1 THEN Head(seqs)
    ELSE Head(seqs) \o sep \o Join(Tail(seqs), sep)

RECURSIVE Doubled(_, _)
Doubled(v, q) ==
    IF v = <<>> THEN <<>>
    ELSE (IF Head(v) = q THEN <<q, q>> ELSE <<Head(v)>>) \o Doubled(Tail(v), q)

Chars(v) == {v[i] : i \in 1 .. Len(v)}

-----------------------------------------------------------------------------
(* CSV export *)

\* csv.writer, QUOTE_MINIMAL: a field is quoted when it holds the delimiter, the
\* quote character or a character of the line terminator.
csv_field(v, sep) ==
    IF Chars(v) \cap ({COMMA, DQ} \cup Chars(sep)) # {}
    THEN <<DQ>> \o Doubled(v, DQ) \o <<DQ>>
    ELSE v

csv_line(fields, sep) ==
    Join([i \in 1 .. Len(fields) |-> csv_field(fields[i], sep)], <<COMMA>>) \o sep

\* DataFrame(rows, columns=columns).to_csv(index=False): the header, then one
\* line per row; the line terminator is os.linesep.
to_csv(columns, rows, sep) ==
    csv_line([i \in 1 .. Len(columns) |-> <<columns[i]>>], sep)
    \o Concat([i \in 1 .. Len(rows) |-> csv_line(rows[i], sep)])

\* The output file opened for appending.
to_file_append(old, data) == File(old.data \o data)

\* to_csv(output_path): the file is created or truncated, then written.
to_file(old, data) == File(data)

write_observations(store, sep) == to_csv(OBSERVATION_FIELD_NAMES, store["observations"], sep)

\* DataFrame(triples): the columns are the fields of the first Triple, and there
\* are none when the list is empty.
write_triples_list(triples, sep) ==
    to_csv(IF triples = <<>> THEN <<>> ELSE TripleFields, triples, sep)

write_triples(store, sep) == write_triples_list(store["triples"], sep)

write_key_values(store, sep) == to_csv(KeyValueColumns, store["key_value_store"], sep)

-----------------------------------------------------------------------------
(* SQL dump and restore *)

\* quote(v) of SQLite, as iterdump uses it for a text value.
sql_quote(v) == <<SQ>> \o Doubled(v, SQ) \o <<SQ>>

insert_line(t, row) ==
    <<"INSERT INTO", t, "VALUES(">>
    \o Join([i \in 1 .. Len(row) |-> sql_quote(row[i])], <<COMMA>>)
    \o <<");">>

table_lines(store, t) ==
    << <<"CREATE TABLE", t, ";">> >>
    \o [i \in 1 .. Len(store[t]) |-> insert_line(t, store[t][i])]

\* db.iterdump(): the lines of the dump.
iterdump(store) ==
    << <<"BEGIN TRANSACTION;">> >>
    \o Concat([i \in 1 .. Len(TableOrder) |-> table_lines(store, TableOrder[i])])
    \o << <<"COMMIT;">> >>

\* for line in db.iterdump(): f.write('%s\n' % line), to a file opened in text mode.
write_full_db_to_file(store, sep) ==
    LET lines == iterdump(store)
    IN  File(Concat([i \in 1 .. Len(lines) |-> write(lines[i] \o <<LF>>, sep)]))

\* A text literal, read from just after its opening quote: [val, rest].
RECURSIVE parse_literal(_, _)
parse_literal(text, acc) ==
    IF text = <<>> THEN [val |-> acc, rest |-> <<>>]
    ELSE IF Head(text) = SQ
         THEN IF Len(text) >= 2 /\ text[2] = SQ
              THEN parse_literal(SubSeq(text, 3, Len(text)), Append(acc, SQ))
              ELSE [val |-> acc, rest |-> Tail(text)]
         ELSE parse_literal(Tail(text), Append(acc, Head(text)))

\* The values of an INSERT, read from just after "VALUES(": [vals, rest].
RECURSIVE parse_values(_, _)
parse_values(text, acc) ==
    IF text = <<>> THEN [vals |-> acc, rest |-> <<>>]
    ELSE IF Head(text) = SQ
         THEN LET lit == parse_literal(Tail(text), <<>>)
              IN  parse_values(lit.rest, Append(acc, lit.val))
    ELSE IF Head(text) = ");" THEN [vals |-> acc, rest |-> Tail(text)]
    ELSE parse_values(Tail(text), acc)

\* cursor.executescript(text) on `store`.
RECURSIVE executescript(_, _)
executescript(text, store) ==
    IF text = <<>> THEN store
    ELSE IF Head(text) = "CREATE TABLE"
         THEN executescript(SubSeq(text, 4, Len(text)),
                            [store EXCEPT !.tables = @ \cup {text[2]}])
    ELSE IF Head(text) = "INSERT INTO"
         THEN LET parsed == parse_values(SubSeq(text, 4, Len(text)), <<>>)
              IN  executescript(parsed.rest,
                                [store EXCEPT !.rows[text[2]] = Append(@, parsed.vals)])
    ELSE executescript(Tail(text), store)

\* open(input_path, 'r').read() replayed into the store at db_path; a table that
\* is already there makes the script raise, and the connection rolls back.
read_full_db_from_file(file, store) ==
    IF store.tables # {} THEN [store EXCEPT !.status = "error"]
    ELSE [executescript(read(file.data), store) EXCEPT !.status = "restored"]

-----------------------------------------------------------------------------
(* Store operations *)

StoreIdle ==
    /\ db = EmptyStore
    /\ linesep = <<LF>>
    /\ dumpFile = NoFile
    /\ db2 = NoTables
    /\ csv = [t \in TableNames |-> NoFile]
    /\ dumped = EmptyStore
    /\ version = 0
    /\ exports = [t \in TableNames |-> <<>>]

\* The schema has just been created; the platform is POSIX or Windows.
StoreInit ==
    /\ db = EmptyStore
    /\ linesep \in {<<LF>>, <<CR, LF>>}
    /\ dumpFile = NoFile
    /\ db2 = NoTables
    /\ csv = [t \in TableNames |-> NoFile]
    /\ dumped = EmptyStore
    /\ version = 0
    /\ exports = [t \in TableNames |-> <<>>]

\* The run persists one more row.
StoreWrite ==
    /\ version < MaxWrites
    /\ \E t \in TableNames : \E r \in RowChoices(t) :
        /\ Len(db[t]) < MaxRows
        /\ t = "key_value_store" => \A i \in 1 .. Len(db[t]) : db[t][i][1] # r[1]
        /\ db' = [db EXCEPT ![t] = Append(@, r)]
    /\ version' = version + 1
    /\ exports' = [t \in TableNames |-> <<>>]
    /\ UNCHANGED <<linesep, dumpFile, db2, csv, dumped>>
    /\ UNCHANGED <<cmpVars, mainVars, realClock, gzVars>>

Export(t, data) ==
    /\ Len(exports[t]) < MaxExports
    /\ csv' = [csv EXCEPT ![t] = to_file(csv[t], data)]
    /\ exports' = [exports EXCEPT ![t] = Append(@, csv'[t].data)]
    /\ UNCHANGED <<db, linesep, dumpFile, db2, dumped, version>>
    /\ UNCHANGED <<cmpVars, mainVars, realClock, gzVars>>

WriteObservations == Export("observations", write_observations(db, linesep))

WriteTriples == Export("triples", write_triples(db, linesep))

WriteKeyValues == Export("key_value_store", write_key_values(db, linesep))

WriteFullDbToFile ==
    /\ dumpFile' = write_full_db_to_file(db, linesep)
    /\ dumped' = db
    /\ UNCHANGED <<db, linesep, db2, csv, version, exports>>
    /\ UNCHANGED <<cmpVars, mainVars, realClock, gzVars>>

ReadFullDbFromFile ==
    /\ dumpFile.exists
    /\ db2' = [read_full_db_from_file(dumpFile, db2) EXCEPT !.of = dumped]
    /\ UNCHANGED <<db, linesep, dumpFile, csv, dumped, version, exports>>
    /\ UNCHANGED <<cmpVars, mainVars, realClock, gzVars>>

\* A fresh, empty database file for the next replay.
FreshStore ==
    /\ db2.status # "fresh"
    /\ db2' = NoTables
    /\ UNCHANGED <<db, linesep, dumpFile, csv, dumped, version, exports>>
    /\ UNCHANGED <<cmpVars, mainVars, realClock, gzVars>>

-----------------------------------------------------------------------------
(* Specifications *)

ClockInit == realClock = RealEpoch

InitCompare == CmpInit /\ MainIdle /\ ClockInit /\ GzIdle /\ StoreIdle
NextCompare == Produce \/ CompareFiles \/ HarnessCheck
SpecCompare == InitCompare /\ [][NextCompare]_vars

InitMain == CmpIdle /\ MainIdle /\ ClockInit /\ GzIdle /\ StoreIdle
NextMain == Invoke \/ MainEnter \/ RunnerStart \/ TimeRead \/ RunEnds \/ Tick
SpecMain == InitMain /\ [][NextMain]_vars

InitGzip == CmpIdle /\ MainIdle /\ ClockInit /\ GzIdle /\ StoreIdle
NextGzip == TestBegin \/ UseFakeGzipTime \/ GzipWrite \/ TestEnd \/ Tick
SpecGzip == InitGzip /\ [][NextGzip]_vars

InitStore == CmpIdle /\ MainIdle /\ ClockInit /\ GzIdle /\ StoreInit
NextExport == StoreWrite \/ WriteObservations \/ WriteTriples \/ WriteKeyValues
SpecExport == InitStore /\ [][NextExport]_vars

NextDump == StoreWrite \/ WriteFullDbToFile \/ ReadFullDbFromFile \/ FreshStore
SpecDump == InitStore /\ [][NextDump]_vars

-----------------------------------------------------------------------------
(* Properties *)

BothExist == fs["actual"].exists /\ fs["expected"].exists
NeitherExists == ~fs["actual"].exists /\ ~fs["expected"].exists

\* C1: compare_files passes exactly when both files exist with byte-identical
\* content or neither file exists.
C1_PassIffByteIdentical ==
    lastCall = "compare" =>
        (outcome = "pass" <=>
            (NeitherExists \/ (BothExist /\ fs["actual"].data = fs["expected"].data)))

\* C2, as stated: compare_files passes if and only if both files exist or
\* neither exists, whatever their content.
C2_PassIffExistenceMatches ==
    lastCall = "compare" =>
        (outcome = "pass" <=> (fs["actual"].exists = fs["expected"].exists))

\* C2, amended: compare_files fails whenever exactly one of the two files exists,
\* whatever the content, and passes when neither exists; when both exist the
\* existence check alone does not decide, and it passes only if the two files
\* read equal.
C2_ExistenceMismatchFails ==
    lastCall = "compare" =>
        /\ (fs["actual"].exists # fs["expected"].exists) => outcome = "fail"
        /\ NeitherExists => outcome = "pass"
        /\ BothExist =>
            (outcome = "pass" <=> read(fs["actual"].data) = read(fs["expected"].data))

\* An expected golden file with no actual counterpart, compared.
C2_Witness ==
    /\ lastCall = "compare"
    /\ ~fs["actual"].exists
    /\ fs["expected"].exists
    /\ outcome = "fail"

\* C3: replaying the dump of a store into a fresh store yields the same tables
\* and, for each table, the same set of rows.
C3_RoundTrip ==
    db2.status = "restored" =>
        /\ db2.tables = TableNames
        /\ \A t \in TableNames :
            {db2.rows[t][i] : i \in 1 .. Len(db2.rows[t])}
                = {db2.of[t][i] : i \in 1 .. Len(db2.of[t])}

\* C4: with TEST_MODE equal to "write" the harness records the artifact as the
\* golden file and raises no comparison failure; with any other value, unset
\* included, its outcome is that of the comparison.
C4_WriteModeSkipsComparison ==
    lastCall = "harness" =>
        IF testMode = "write"
        THEN outcome = "written" /\ fs["expected"] = fs["actual"]
        ELSE outcome \in {"pass", "fail"} /\ outcome = skipped

\* Write mode, with an artifact the comparison would have rejected.
C4_Witness ==
    /\ lastCall = "harness"
    /\ testMode = "write"
    /\ skipped = "fail"
    /\ outcome = "written"

\* C5: a mode outside RunMode ends the invocation in a flag error before any
\* I/O and before a Runner exists; a Runner is only ever constructed with a
\* member of RunMode, and with CUSTOM_DC when no mode is given.
C5_UnknownModeRejected ==
    /\ (argv.modeGiven /\ argv.mode \notin RunModeValues) =>
        (pc = "usage_error" /\ runnerMode = "none" /\ ~ioStarted)
    /\ runnerMode # "none" => (runnerMode \in RunModeValues /\ runnerMode = FLAGS.mode)
    /\ (pc \in {"main", "_run", "running"} /\ ~argv.modeGiven) => FLAGS.mode = CUSTOM_DC
    /\ (pc \in {"main", "_run", "running"} /\ argv.modeGiven) => FLAGS.mode = argv.mode

\* An unrecognized mode was given, after an earlier invocation had run.
C5_Witness ==
    /\ pc = "usage_error"
    /\ argv.mode = "bogus"
    /\ lastExit # "none"

\* C6: once main has ended, by return or by exception, no clock override is in
\* force and every component reads the real clock; an invocation that does not
\* ask for freezing runs with no override left by an earlier one.
C6_FreezeTornDown ==
    /\ pc \in {"idle", "main", "usage_error"} =>
        /\ freezeStack = <<>>
        /\ \A c \in Components : time_time(freezeStack, realClock, c) = realClock
    /\ (pc \in {"_run", "running"} /\ ~FLAGS.freeze_time) => freezeStack = <<>>

\* A frozen run has raised, and main has ended.
C6_Witness ==
    /\ pc = "idle"
    /\ lastExit = "raised"
    /\ FLAGS.freeze_time
    /\ reads[<<"stats", "runner">>].taken

\* C7: with freeze_time set the whole run is inside the freeze scope, a time
\* read by a component off the ignore list returns frozen_time and a read by a
\* component on it returns the real clock; with the flag unset there is no
\* override and every read returns the real clock.
C7_TimeFreezeGating ==
    /\ pc \in {"_run", "running"} =>
        IF FLAGS.freeze_time
        THEN Len(freezeStack) = 1 /\ freezeStack[1].time = FLAGS.frozen_time
        ELSE freezeStack = <<>>
    /\ \A c \in Components :
        reads[c].taken =>
            reads[c].value =
                IF FLAGS.freeze_time /\ Head(c) \notin _FREEZE_TIME_IGNORE_LIST
                THEN FLAGS.frozen_time
                ELSE reads[c].real

\* A frozen run in which both a pinned and an exempt component read the time.
C7_Witness ==
    /\ FLAGS.freeze_time
    /\ reads[<<"gzip">>].taken
    /\ reads[<<"transformers", "models">>].taken
    /\ reads[<<"gzip">>].value = FLAGS.frozen_time
    /\ reads[<<"transformers", "models">>].value = realClock
    /\ realClock > RealEpoch

AnyExport == WriteObservations \/ WriteTriples \/ WriteKeyValues

\* C8: the exports of a table made with no write to the store in between are
\* identical files, and an export leaves the store unchanged.
C8_ExportDeterministic ==
    /\ [](\A t \in TableNames : \A i, j \in 1 .. Len(exports[t]) :
            exports[t][i] = exports[t][j])
    /\ [][AnyExport => db' = db]_vars

\* After the last write to the store, with rows in the triples table, each of
\* the three tables was exported twice in a row.
C8_Witness ==
    /\ version = MaxWrites
    /\ db["triples"] # <<>>
    /\ \A t \in TableNames : Len(exports[t]) >= 2

IsPrefix(p, s) == Len(p) <= Len(s) /\ SubSeq(s, 1, Len(p)) = p

\* The records of a CSV file: the line feeds outside quoted fields.
RECURSIVE RecordCount(_, _)
RecordCount(data, quoted) ==
    IF data = <<>> THEN 0
    ELSE IF Head(data) = DQ THEN RecordCount(Tail(data), ~quoted)
    ELSE (IF Head(data) = LF /\ ~quoted THEN 1 ELSE 0) + RecordCount(Tail(data), quoted)

FieldNames(t) ==
    IF t = "observations" THEN OBSERVATION_FIELD_NAMES
    ELSE IF t = "triples" THEN TripleFields
    ELSE KeyValueColumns

\* C9: the export of each table is a header row of the table's field names in
\* their fixed order, followed by exactly one data row per row of the table.
C9_HeaderAndRows ==
    \A t \in TableNames :
        exports[t] # <<>> =>
            /\ IsPrefix(Join([i \in 1 .. Len(FieldNames(t)) |-> <<FieldNames(t)[i]>>],
                             <<COMMA>>) \o linesep,
                        csv[t].data)
            /\ RecordCount(csv[t].data, FALSE) = 1 + Len(db[t])

\* C10: a gzip timestamp written by a test case that did not pin the time is
\* the real clock, whatever earlier test cases pinned.
C10_PinRestored ==
    (gzLast.taken /\ ~gzLast.pinned) => gzLast.mtime = gzLast.real

====
